---- MODULE Spec2Model ----
\* A model of libfluid's simulation driver (src/src/simulation.cpp) and of the
\* host code that configures it (src/plugins/maya/grid_node.cpp).
\*
\* Numbers.  The program computes in IEEE doubles; the model computes on an
\* integer lattice.  Lengths are in lattice units (a cell is cell_size units
\* wide), times in ticks, velocities in units per tick.  Sums, differences and
\* products are exact; a quotient is rounded to the nearest lattice value
\* (RoundDiv), as a double quotient is rounded to the nearest double.  The
\* model's unit of length is GravityLiteral (981) world units, so that the
\* acceleration literal of time_step is one lattice unit per tick squared; the
\* code is homogeneous in length, so the choice of unit changes no behaviour.
EXTENDS Integers, Sequences, FiniteSets, TLC

\* ---------------------------------------------------------------- bounds
SizeX == 2
SizeY == 2
SizeZ == 1
MaxParticles == 2
MaxDt == 3
MaxUpdates == 1
MaxSubsteps == 4
MaxSeeds == 1

\* ------------------------------------------------------ program constants
\* the literal of the external-forces loop, in world units
GravityLiteral == 981
\* world units per lattice unit of length
LengthUnit == GravityLiteral
\* default of simulation::cfl_number
DefaultCflNumber == 3
\* simulation::boundary_skin_width, lattice units
boundary_skin_width == 1
\* the cell size the host configures, lattice units (even: faces sit at half cells)
HostCellSize == 4

VARIABLES
    pc,                \* position of the host / of update() / of time_step()
    _particles,        \* simulation::_particles
    _grid,             \* simulation::_grid
    _old_grid,         \* simulation::_old_grid
    _space_hash,       \* simulation::_space_hash: cell -> sequence of particle refs
    simulation_method, \* simulation::simulation_method
    blending_factor,   \* simulation::blending_factor
    gravity,           \* simulation::gravity
    cell_size,         \* simulation::cell_size
    cfl_number,        \* simulation::cfl_number
    grid_offset,       \* simulation::grid_offset
    dt,                \* update()'s parameter dt (the remaining time)
    ts,                \* update()'s local ts
    step_dt,           \* time_step()'s parameter dt
    last_step,         \* TRUE when update() took the branch that breaks
    in_update,         \* TRUE when time_step was called by update()
    fluid_cells,       \* the vector handed to pressure_solver in time_step
    update_arg,        \* history: the argument of the running update()
    substeps,          \* history: <<size, maxlen at start>> of each substep of this update
    phases,            \* history: the phases the running time_step has finished
    updates,           \* history: number of update() calls so far
    ref_particles,     \* reference run (method pic) from the same start
    ref_grid,
    ref_hash,
    random,            \* simulation::random, the state of the engine
    seeds,             \* history: number of seed_cell calls so far
    seed_arg,          \* history: the arguments of the last seed_cell call
    cell_query         \* the last world_position_to_cell_index call and its result

vars == <<pc, _particles, _grid, _old_grid, _space_hash, simulation_method,
          blending_factor, gravity, cell_size, cfl_number, grid_offset, dt, ts,
          step_dt, last_step, in_update, fluid_cells, update_arg, substeps,
          phases, updates, ref_particles, ref_grid, ref_hash, random, seeds,
          seed_arg, cell_query>>

\* what time stepping and configuration leave alone
host_vars == <<random, seeds, seed_arg, cell_query>>

\* ------------------------------------------------------------- vectors
Zero3 == <<0, 0, 0>>
Axes == 1..3
VAdd(a, b) == [i \in Axes |-> a[i] + b[i]]
VSub(a, b) == [i \in Axes |-> a[i] - b[i]]
VScale(a, k) == [i \in Axes |-> a[i] * k]
VMul(a, b) == [i \in Axes |-> a[i] * b[i]]
Dot(a, b) == a[1] * b[1] + a[2] * b[2] + a[3] * b[3]
squared_length(a) == Dot(a, a)
Abs(x) == IF x < 0 THEN -x ELSE x
Max(a, b) == IF a < b THEN b ELSE a
Min(a, b) == IF b < a THEN b ELSE a
\* a / b for b > 0, rounded to the nearest lattice value
RoundDiv(a, b) == (2 * a + b) \div (2 * b)
axis(i) == [j \in Axes |-> IF j = i THEN 1 ELSE 0]

RECURSIVE SumSeq(_)
SumSeq(s) == IF s = <<>> THEN 0 ELSE Head(s) + SumSeq(Tail(s))

RECURSIVE VSumSeq(_)
VSumSeq(s) == IF s = <<>> THEN Zero3 ELSE VAdd(Head(s), VSumSeq(Tail(s)))

RECURSIVE Concat(_)
Concat(ss) == IF ss = <<>> THEN <<>> ELSE Head(ss) \o Concat(Tail(ss))

RECURSIVE SetToSeq(_)
SetToSeq(S) ==
    IF S = {} THEN <<>>
    ELSE LET x == CHOOSE y \in S : TRUE IN <<x>> \o SetToSeq(S \ {x})

\* ---------------------------------------------------------------- grid
Size == <<SizeX, SizeY, SizeZ>>
Cells == {<<x, y, z>> : x \in 0..(SizeX - 1), y \in 0..(SizeY - 1), z \in 0..(SizeZ - 1)}
InGrid(c) == \A i \in Axes : c[i] >= 0 /\ c[i] < Size[i]
NewCell == [cell_type |-> "air", velocities_posface |-> Zero3]
\* fluid_grid(sz): every cell air, at rest
NewGrid == [c \in Cells |-> NewCell]
EmptyHash == [c \in Cells |-> <<>>]
\* simulation::resize
resize == [g |-> NewGrid, h |-> EmptyHash]

\* ---------------------------------------------------------- cfl / update
\* the largest squared particle speed (the loop of simulation::cfl)
MaxSquaredSpeed(ps) ==
    LET S == {squared_length(ps[i].velocity) : i \in 1..Len(ps)}
    IN  IF S = {} THEN 0 ELSE CHOOSE m \in S : \A n \in S : n <= m

\* simulation::cfl: cell_size / sqrt(maxlen), kept as the exact pair
\* (numerator, squared denominator); maxlen = 0 gives +infinity in doubles
cfl(ps, cs) == [num |-> cs, sqden |-> MaxSquaredSpeed(ps)]

\* ts > d for ts = k * c.num / sqrt(c.sqden), decided exactly
TsGreater(k, c, d) ==
    IF c.sqden = 0 THEN k * c.num > 0
    ELSE IF k * c.num <= 0 THEN FALSE
    ELSE d < 0 \/ (k * c.num) * (k * c.num) > d * d * c.sqden

\* ts = k * c.num / sqrt(c.sqden) as a number of ticks (rounded down); only
\* used when ts is finite
TsTicks(k, c) ==
    LET n == k * c.num
    IN  IF n <= 0 THEN 0
        ELSE CHOOSE t \in 0..n :
                /\ t * t * c.sqden <= n * n
                /\ (t + 1) * (t + 1) * c.sqden > n * n

\* ------------------------------------------------------------ advection
\* std::clamp(v, lo, hi)
clamp(v, lo, hi) == IF v < lo THEN lo ELSE IF hi < v THEN hi ELSE v

min_corner(off) == VAdd(off, <<boundary_skin_width, boundary_skin_width, boundary_skin_width>>)
max_corner_no_skin(off, cs) == VAdd(VScale(Size, cs), off)

max_corner(off, cs) ==
    VSub(VAdd(VScale(Size, cs), off),
         <<boundary_skin_width, boundary_skin_width, boundary_skin_width>>)

\* simulation::_advect_particles
_advect_particles(ps, d, off, cs) ==
    [i \in 1..Len(ps) |->
        LET moved == VAdd(ps[i].position, VScale(ps[i].velocity, d))
        IN  [ps[i] EXCEPT !.position =
                [a \in Axes |-> clamp(moved[a], min_corner(off)[a], max_corner(off, cs)[a])]]]

\* -------------------------------------------------------------- hashing
\* (pos - grid_offset) / cell_size, then static_cast<size_t>(max(. , 0.0)):
\* the quotient is truncated, so the division is done on the integers
TruncCell(x, cs) == IF x < 0 THEN 0 ELSE x \div cs

HashIndex_no_decrement(pos, off, cs) ==
    [a \in Axes |-> Min(TruncCell(pos[a] - off[a], cs), Size[a])]

\* the lambda of hash_particles
HashIndex(pos, off, cs) ==
    [a \in Axes |-> Min(TruncCell(pos[a] - off[a], cs), Size[a] - 1)]

\* space_hashing::add_object_at over the particles in order: bucket c holds
\* references to the elements of _particles (their indices), in insertion order
HashBuckets(ps) ==
    [c \in Cells |-> SelectSeq([i \in 1..Len(ps) |-> i], LAMBDA i : ps[i].grid_index = c)]

\* simulation::world_position_to_cell_index_unclamped
world_position_to_cell_index_unclamped(pos, off, cs) ==
    [a \in Axes |-> TruncCell(pos[a] - off[a], cs)]

\* simulation::world_position_to_cell_index: std::min with get_size()
world_position_to_cell_index(pos, off, cs) ==
    [a \in Axes |-> Min(world_position_to_cell_index_unclamped(pos, off, cs)[a], Size[a])]

\* simulation::hash_particles
hash_particles(ps, off, cs) ==
    LET qs == [i \in 1..Len(ps) |->
                 [ps[i] EXCEPT !.grid_index = HashIndex(ps[i].position, off, cs)]]
    IN  [p |-> qs, h |-> HashBuckets(qs)]

\* ------------------------------------------------------ particle -> grid
\* simulation::_kernel, times cell_size^3 (the linear kernel; the factor
\* cancels in sum_vel / sum_weight)
_kernel(d, cs) ==
    Max(0, cs - Abs(d[1])) * Max(0, cs - Abs(d[2])) * Max(0, cs - Abs(d[3]))

\* space_hashing::for_all_nearby_objects(cell, (1,1,1), (1,1,1), f): the
\* references held by the buckets of the cells of [cell-1, cell+1] inside the grid
NearbyCells ==
    [c \in Cells |-> SetToSeq({n \in Cells : \A a \in Axes : Abs(n[a] - c[a]) <= 1})]

NearbyObjects(h, c) == Concat([k \in 1..Len(NearbyCells[c]) |-> h[NearbyCells[c][k]]])

\* centre of a cell: (xpos, ypos, zpos) of the transfer loops
CellCentre(c, off, cs) == [a \in Axes |-> off[a] + cs \div 2 + c[a] * cs]
\* xface, yface, zface
Face(c, a, off, cs) == VAdd(CellCentre(c, off, cs), VScale(axis(a), cs \div 2))

\* the lambda handed to vec_ops::apply_to: weight > 1e-6 ? vel / weight : 0.0
\* (a scaled weight is a whole number, so it exceeds 1e-6 * cell_size^3 iff it is positive)
Normalise(vel, weight) == IF weight > 0 THEN RoundDiv(vel, weight) ELSE 0

\* the body of the cell loop shared by the pic and apic transfers; src(p, c)
\* is what each particle contributes
TransferCell(g, h, ps, off, cs, c, useAffine) ==
    IF g[c].cell_type = "solid" THEN g[c]
    ELSE
        LET near == NearbyObjects(h, c)
            weights(i) == [a \in Axes |-> _kernel(VSub(ps[i].position, Face(c, a, off, cs)), cs)]
            affine(i) ==
                IF useAffine
                THEN << Dot(ps[i].cx, VSub(Face(c, 1, off, cs), ps[i].position)),
                        Dot(ps[i].cy, VSub(Face(c, 2, off, cs), ps[i].position)),
                        Dot(ps[i].cz, VSub(Face(c, 3, off, cs), ps[i].position)) >>
                ELSE Zero3
            sum_weight == VSumSeq([k \in 1..Len(near) |-> weights(near[k])])
            sum_vel == VSumSeq([k \in 1..Len(near) |->
                          VMul(weights(near[k]), VAdd(ps[near[k]].velocity, affine(near[k])))])
        IN  [cell_type |-> IF h[c] # <<>> THEN "fluid" ELSE "air",
             velocities_posface |-> [a \in Axes |-> Normalise(sum_vel[a], sum_weight[a])]]

\* simulation::_transfer_to_grid_pic
_transfer_to_grid_pic(g, h, ps, off, cs) ==
    [c \in Cells |-> TransferCell(g, h, ps, off, cs, c, FALSE)]

\* simulation::_transfer_to_grid_apic
_transfer_to_grid_apic(g, h, ps, off, cs) ==
    [c \in Cells |-> TransferCell(g, h, ps, off, cs, c, TRUE)]

\* simulation::_remove_boundary_velocities
_remove_boundary_velocities(g) ==
    [c \in Cells |->
        [g[c] EXCEPT !.velocities_posface =
            [a \in Axes |-> IF c[a] = Size[a] - 1 THEN 0 ELSE g[c].velocities_posface[a]]]]

\* ------------------------------------------------------ grid -> particle
\* simulation::_get_negative_face_velocities
_get_negative_face_velocities(g, id) ==
    [a \in Axes |-> IF id[a] > 0 THEN g[VSub(id, axis(a))].velocities_posface[a] ELSE 0]

\* t = (position - grid_offset) / cell_size - grid_index, times cell_size
TNum(p, off, cs) == VSub(VSub(p.position, off), VScale(p.grid_index, cs))

\* lerp(a, b, t) = a + (b - a) * t for t = tn / cs
lerp(a, b, tn, cs) == RoundDiv(a * cs + (b - a) * tn, cs)

\* the velocity a particle reads from grid g
Interpolate(g, p, off, cs) ==
    LET t == TNum(p, off, cs)
        neg == _get_negative_face_velocities(g, p.grid_index)
    IN  [a \in Axes |-> lerp(neg[a], g[p.grid_index].velocities_posface[a], t[a], cs)]

\* simulation::_transfer_from_grid_pic
_transfer_from_grid_pic(ps, g, off, cs) ==
    [i \in 1..Len(ps) |-> [ps[i] EXCEPT !.velocity = Interpolate(g, ps[i], off, cs)]]

\* simulation::_transfer_from_grid_flip
_transfer_from_grid_flip(ps, g, og, blend, off, cs) ==
    [i \in 1..Len(ps) |->
        LET old_velocity == Interpolate(og, ps[i], off, cs)
            new_velocity == Interpolate(g, ps[i], off, cs)
        IN  [ps[i] EXCEPT !.velocity =
                VAdd(new_velocity, VScale(VSub(ps[i].velocity, old_velocity), blend))]]

\* _clamp(val, 1, max) of the apic transfer, then the decrement: the index
\* read and whether it was clamped
ClampIndex(val, max) ==
    IF val < 1 THEN [i |-> 0, clamped |-> TRUE]
    ELSE IF val >= max THEN [i |-> max - 1, clamped |-> TRUE]
    ELSE [i |-> val - 1, clamped |-> FALSE]

\* vels[dz][dy][dx] of _transfer_from_grid_apic, as a function of <<dx, dy, dz>>
ApicVels(g, gi) ==
    [d \in (0..2) \X (0..2) \X (0..2) |->
        LET k == [a \in Axes |-> ClampIndex(gi[a] + d[a], Size[a])]
            vel == g[<<k[1].i, k[2].i, k[3].i>>].velocities_posface
        IN  [a \in Axes |-> IF k[a].clamped THEN 0 ELSE vel[a]]]

\* _grad, times cell_size^2: fx, fy, fz are numerators over cs
_grad(v000, v001, v010, v011, v100, v101, v110, v111, fx, fy, fz, cs) ==
    LET x1 == cs - fx
        y1 == cs - fy
        z1 == cs - fz
        f000 == << -(y1 * z1), -(x1 * z1), -(x1 * y1) >>
        f001 == << y1 * z1, -(fx * z1), -(fx * y1) >>
        f010 == << -(fy * z1), x1 * z1, -(x1 * fy) >>
        f011 == << fy * z1, fx * z1, -(fx * fy) >>
        f100 == << -(y1 * fz), -(x1 * fz), x1 * y1 >>
        f101 == << y1 * fz, -(fx * fz), fx * y1 >>
        f110 == << -(fy * fz), x1 * fz, x1 * fy >>
        f111 == << fy * fz, fx * fz, fx * fy >>
    IN  VSumSeq(<< VScale(f000, v000), VScale(f001, v001), VScale(f010, v010),
                   VScale(f011, v011), VScale(f100, v100), VScale(f101, v101),
                   VScale(f110, v110), VScale(f111, v111) >>)

\* the c vectors of one particle (lines 416-482)
ApicRows(g, p, off, cs) ==
    LET t == TNum(p, off, cs)
        vels == ApicVels(g, p.grid_index)
        half == cs \div 2
        d == [a \in Axes |-> IF t[a] - half < 0 THEN 0 ELSE 1]
        tmid == [a \in Axes |-> IF t[a] - half < 0 THEN t[a] - half + cs ELSE t[a] - half]
        dx == d[1]
        dy == d[2]
        dz == d[3]
        \* vels[z][y][x] is vels[<<x, y, z>>]
        v000 == << vels[<<0, dy, dz>>][1], vels[<<dx, 0, dz>>][2], vels[<<dx, dy, 0>>][3] >>
        v001 == << vels[<<1, dy, dz>>][1], vels[<<dx + 1, 0, dz>>][2], vels[<<dx + 1, dy, 0>>][3] >>
        v010 == << vels[<<0, dy + 1, dz>>][1], vels[<<dx, 1, dz>>][2], vels[<<dx, dy + 1, 0>>][3] >>
        v011 == << vels[<<1, dy + 1, dz>>][1], vels[<<dx + 1, 1, dz>>][2], vels[<<dx + 1, dy + 1, 0>>][3] >>
        v100 == << vels[<<0, dy, dz + 1>>][1], vels[<<dx, 0, dz + 1>>][2], vels[<<dx, dy, 1>>][3] >>
        v101 == << vels[<<1, dy, dz + 1>>][1], vels[<<dx + 1, 0, dz + 1>>][2], vels[<<dx + 1, dy, 1>>][3] >>
        v110 == << vels[<<0, dy + 1, dz + 1>>][1], vels[<<dx, 1, dz + 1>>][2], vels[<<dx, dy + 1, 1>>][3] >>
        v111 == << vels[<<1, dy + 1, dz + 1>>][1], vels[<<dx + 1, 1, dz + 1>>][2], vels[<<dx + 1, dy + 1, 1>>][3] >>
        row(a, fx, fy, fz) ==
            LET gr == _grad(v000[a], v001[a], v010[a], v011[a],
                            v100[a], v101[a], v110[a], v111[a], fx, fy, fz, cs)
            IN  [b \in Axes |-> RoundDiv(gr[b], cs * cs * cs)]
    IN  [cx |-> row(1, t[1], tmid[2], tmid[3]),
         cy |-> row(2, tmid[1], t[2], tmid[3]),
         cz |-> row(3, tmid[1], tmid[2], t[3])]

\* simulation::_transfer_from_grid_apic
_transfer_from_grid_apic(ps, g, off, cs) ==
    [i \in 1..Len(ps) |->
        LET c == ApicRows(g, ps[i], off, cs)
        IN  [ps[i] EXCEPT !.velocity = Interpolate(g, ps[i], off, cs),
                          !.cx = c.cx, !.cy = c.cy, !.cz = c.cz]]

\* ------------------------------------------------------- external forces
\* vec3d(0.0, -981.0, 0.0), in lattice units
StepGravity == <<0, -(GravityLiteral \div LengthUnit), 0>>

\* the "add external forces" loop of time_step
AddExternalForces(g, d) ==
    [c \in Cells |->
        [g[c] EXCEPT !.velocities_posface = VAdd(g[c].velocities_posface, VScale(StepGravity, d))]]

\* ------------------------------------------------------ pressure solver
\* space_hashing::get_sorted_occupied_cells: the cells whose bucket is not empty
get_sorted_occupied_cells(h) == {c \in Cells : h[c] # <<>>}

IsSolid(g, c) == InGrid(c) /\ g[c].cell_type = "solid"

\* number of non-solid face neighbours of c inside the grid
NonSolidNeighbours(g, c) ==
    Cardinality({n \in Cells : /\ \E a \in Axes : n = VAdd(c, axis(a)) \/ n = VSub(c, axis(a))
                               /\ g[n].cell_type # "solid"})

\* the velocity of the face between c and c + axis(a) that enters the right-hand
\* side: 0 at the grid boundary and next to a solid
FaceInto(g, c, a) ==
    IF ~InGrid(c) \/ ~InGrid(VAdd(c, axis(a))) \/ IsSolid(g, c) \/ IsSolid(g, VAdd(c, axis(a)))
    THEN 0
    ELSE g[c].velocities_posface[a]

\* h * b: minus the sum of the face-velocity differences of cell c
Divergence(g, c) ==
    SumSeq([a \in Axes |-> FaceInto(g, c, a) - FaceInto(g, VSub(c, axis(a)), a)])

\* pressure_solver::solve, one diagonally preconditioned sweep.  The value is
\* q = p * dt / (rho * h), the quantity apply_pressure subtracts: with
\* A_cc = dt / (rho h^2) * k and b_c = -div / h, q_c = -div / k and dt cancels
\* (for dt = 0 the factor dt of apply_pressure makes q zero).
solve(g, fc, d) ==
    [c \in Cells |->
        IF c \in fc /\ d # 0 /\ NonSolidNeighbours(g, c) > 0
        THEN RoundDiv(-Divergence(g, c), NonSolidNeighbours(g, c))
        ELSE 0]

\* pressure_solver::apply_pressure: u_face -= q_b - q_a on a face between two
\* non-solid cells; a face on the grid boundary or touching a solid is zeroed
apply_pressure(g, q) ==
    [c \in Cells |->
        [g[c] EXCEPT !.velocities_posface =
            [a \in Axes |->
                IF ~InGrid(VAdd(c, axis(a))) \/ IsSolid(g, c) \/ IsSolid(g, VAdd(c, axis(a)))
                THEN 0
                ELSE g[c].velocities_posface[a] - (q[VAdd(c, axis(a))] - q[c])]]]

\* ----------------------------------------------------------- dispatch
Methods == {"pic", "flip_blend", "apic"}

\* simulation::_transfer_to_grid_flip: the grid is left as it is, the particles
\* read it, and the snapshot is taken
_transfer_to_grid_flip(ps, g, off, cs) ==
    LET qs == _transfer_from_grid_pic(ps, g, off, cs)
    IN  [p |-> qs, g |-> g, og |-> _remove_boundary_velocities(g)]

\* simulation::_transfer_to_grid: the new particles, grid and old grid
_transfer_to_grid(m, ps, g, og, h, off, cs) ==
    CASE m = "pic" -> [p |-> ps, g |-> _transfer_to_grid_pic(g, h, ps, off, cs), og |-> og]
      [] m = "flip_blend" -> _transfer_to_grid_flip(ps, g, off, cs)
      [] m = "apic" -> [p |-> ps, g |-> _transfer_to_grid_apic(g, h, ps, off, cs), og |-> og]

\* simulation::_transfer_from_grid
_transfer_from_grid(m, ps, g, og, blend, off, cs) ==
    CASE m = "pic" -> _transfer_from_grid_pic(ps, g, off, cs)
      [] m = "flip_blend" -> _transfer_from_grid_flip(ps, g, og, blend, off, cs)
      [] m = "apic" -> _transfer_from_grid_apic(ps, g, off, cs)

NextPhase_forces_late(ph) ==
    CASE ph = "advect" -> "hash"
      [] ph = "hash" -> "to_grid"
      [] ph = "to_grid" -> "pressure"
      [] ph = "pressure" -> "forces"
      [] ph = "forces" -> "from_grid"
      [] ph = "from_grid" -> "stepped"

\* the phase time_step runs after phase ph ("stepped": time_step returns)
NextPhase(ph) ==
    CASE ph = "advect" -> "hash"
      [] ph = "hash" -> "to_grid"
      [] ph = "to_grid" -> "forces"
      [] ph = "forces" -> "pressure"
      [] ph = "pressure" -> "from_grid"
      [] ph = "from_grid" -> "stepped"

\* one whole time_step(d) with method pic, as a function of the state
PicStep(ps, g, d, off, cs) ==
    LET hp == hash_particles(_advect_particles(ps, d, off, cs), off, cs)
        g1 == _transfer_to_grid_pic(g, hp.h, hp.p, off, cs)
        g2 == AddExternalForces(g1, d)
        g3 == apply_pressure(g2, solve(g2, get_sorted_occupied_cells(hp.h), d))
    IN  [p |-> _transfer_from_grid_pic(hp.p, g3, off, cs), g |-> g3, h |-> hp.h]

\* ----------------------------------------------------------------- seeding
\* a bucket entry that refers to no element of _particles: the object it was
\* taken from is gone (a local of seed_cell, or an element of a buffer the
\* particle array has left)
Dangling == 0

\* simulation::random, a linear congruential engine on a small state
RandomModulus == 16
NextRandom(r) == (5 * r + 3) % RandomModulus

RECURSIVE RandomAfter(_, _)
RandomAfter(r, n) == IF n = 0 THEN r ELSE RandomAfter(NextRandom(r), n - 1)

\* the k-th value std::uniform_real_distribution(0, cell_size) draws from
\* engine state r: a lattice point of [0, cell_size)
Draw(r, k, cs) == (RandomAfter(r, k) * cs) \div RandomModulus

\* the orders in which a build may evaluate the three dist(random) arguments
ArgOrders == {"left_to_right", "right_to_left"}

\* the j-th particle the loop of seed_cell makes
SeededParticle(r, j, cell, velocity, off, cs, order) ==
    LET a == Draw(r, 3 * j - 2, cs)
        b == Draw(r, 3 * j - 1, cs)
        c == Draw(r, 3 * j, cs)
        rnd == IF order = "left_to_right" THEN <<a, b, c>> ELSE <<c, b, a>>
    IN  [position |-> VAdd(VAdd(off, VScale(cell, cs)), rnd), velocity |-> velocity,
         grid_index |-> cell, cx |-> Zero3, cy |-> Zero3, cz |-> Zero3]

\* the references the buckets hold once the particle array has moved to a
\* larger buffer
Invalidated(h) == [c \in Cells |-> [i \in 1..Len(h[c]) |-> Dangling]]

\* simulation::seed_cell: the particle array, the hash and the engine after
\* the call. Each turn of the loop hands the bucket a reference to its local p,
\* then copies p to the end of _particles.
seed_cell(ps, h, r, cell, velocity, density, off, cs, order, realloc) ==
    LET num == Len(h[cell])
        target == density * density * density
        added == Max(0, target - num)
        kept == IF realloc /\ added > 0 THEN Invalidated(h) ELSE h
    IN  [p |-> ps \o [j \in 1..added |->
                        SeededParticle(r, j, cell, velocity, off, cs, order)],
         h |-> [kept EXCEPT ![cell] = @ \o [j \in 1..added |-> Dangling]],
         r |-> RandomAfter(r, 3 * added)]

\* ---------------------------------------------------------------- inputs
Particle(pos, vel) ==
    [position |-> pos, velocity |-> vel, grid_index |-> Zero3,
     cx |-> Zero3, cy |-> Zero3, cz |-> Zero3]

\* the particles a host may hand over: at a cell centre and at rest, moving at
\* 4 (ts = 3), outside the grid and moving at 6 (ts = 2), on a cell corner
ParticlePool ==
    { Particle(<<2, 2, 2>>, <<0, 0, 0>>),
      Particle(<<6, 5, 1>>, <<4, 0, 0>>),
      Particle(<<9, -1, 2>>, <<-6, 0, 0>>),
      Particle(<<4, 4, 2>>, <<1, 2, 0>>) }

\* the pool in a fixed order, and the sequences a host hands over: up to
\* MaxParticles particles of the pool, in that order
PoolSeq == SetToSeq(ParticlePool)
ParticleSeqs ==
    {[k \in 1..Len(is) |-> PoolSeq[is[k]]] :
        is \in {js \in UNION {[1..n -> 1..Len(PoolSeq)] : n \in 0..MaxParticles} :
                  \A k \in 1..(Len(js) - 1) : js[k] < js[k + 1]}}

\* what the host configures: grid offset and gravity
Scenes == {[off |-> Zero3, gravity |-> StepGravity], [off |-> <<-1, 0, 1>>, gravity |-> Zero3]}
\* the blending factors a host assigns: pure pic, pure flip, and one outside [0, 1]
BlendingFactors == {0, 1, 2}
\* the frame times a host passes to update(dt)
Dts == {MaxDt - 1, MaxDt}
\* the sizes of the steps a host takes with time_step(dt) itself
StepDts == {1}
\* the cells a host marks solid, and the velocity it leaves on their faces
SolidCells == {<<0, 0, 0>>}
SolidVelocity == <<2, -1, 0>>
\* what a host seeds: the cell, the velocity and the densities
SeedCells == {<<1, 0, 0>>}
SeedVelocity == <<0, -2, 0>>
SeedDensities == {1, 2}

\* the default-constructed engine
DefaultSeed == 1
NoSeed == [cell |-> Zero3, velocity |-> Zero3, density |-> 0]
NoQuery == [pos |-> Zero3, index |-> Zero3]

\* ------------------------------------------------------------------ Init
Init ==
    /\ pc = "new"
    /\ _particles = <<>>
    /\ _grid = NewGrid
    /\ _old_grid = NewGrid
    /\ _space_hash = EmptyHash
    /\ simulation_method = "pic"
    /\ blending_factor = 1
    /\ gravity = StepGravity
    /\ cell_size = HostCellSize
    /\ cfl_number = DefaultCflNumber
    /\ grid_offset = Zero3
    /\ dt = 0
    /\ ts = [inf |-> FALSE, ticks |-> 0]
    /\ step_dt = 0
    /\ last_step = FALSE
    /\ in_update = FALSE
    /\ fluid_cells = {}
    /\ update_arg = 0
    /\ substeps = <<>>
    /\ phases = <<>>
    /\ updates = 0
    /\ ref_particles = <<>>
    /\ ref_grid = NewGrid
    /\ ref_hash = EmptyHash
    /\ random = DefaultSeed
    /\ seeds = 0
    /\ seed_arg = NoSeed
    /\ cell_query = NoQuery

\* --------------------------------------------------------------- actions
\* grid_node::compute, from the construction of sim to sim.hash_particles()
Configure(m, gv, off, ps) ==
    /\ pc = "new"
    /\ cell_size' = HostCellSize
    /\ _grid' = resize.g
    /\ _old_grid' = _old_grid
    /\ grid_offset' = off
    /\ gravity' = gv
    /\ simulation_method' = m
    /\ _particles' = hash_particles(ps, off, HostCellSize).p
    /\ _space_hash' = hash_particles(ps, off, HostCellSize).h
    /\ ref_particles' = _particles'
    /\ ref_grid' = _grid'
    /\ ref_hash' = _space_hash'
    /\ pc' = "idle"
    /\ UNCHANGED host_vars
    /\ UNCHANGED <<blending_factor, cfl_number, dt, ts, step_dt, last_step, in_update,
                   fluid_cells, update_arg, substeps, phases, updates>>

\* the host assigns simulation::blending_factor
SetBlendingFactor(b) ==
    /\ pc = "idle"
    /\ updates = 0
    /\ simulation_method = "flip_blend"
    /\ b # blending_factor
    /\ blending_factor' = b
    /\ UNCHANGED host_vars
    /\ UNCHANGED <<pc, _particles, _grid, _old_grid, _space_hash, simulation_method,
                   gravity, cell_size, cfl_number, grid_offset, dt, ts, step_dt,
                   last_step, in_update, fluid_cells, update_arg, substeps, phases,
                   updates, ref_particles, ref_grid, ref_hash>>

\* the host marks a cell solid and gives its faces a velocity, through grid()
MarkSolid(c) ==
    /\ pc = "idle"
    /\ updates = 0
    /\ \A k \in Cells : _grid[k].cell_type # "solid"
    /\ _grid' = [_grid EXCEPT ![c] = [cell_type |-> "solid", velocities_posface |-> SolidVelocity]]
    /\ ref_grid' = _grid'
    /\ UNCHANGED host_vars
    /\ UNCHANGED <<pc, _particles, _old_grid, _space_hash, simulation_method,
                   blending_factor, gravity, cell_size, cfl_number, grid_offset, dt, ts,
                   step_dt, last_step, in_update, fluid_cells, update_arg, substeps,
                   phases, updates, ref_particles, ref_hash>>

\* simulation::seed_cell, called by the host before it runs the simulation
SeedCell(cell, velocity, density, order, realloc) ==
    /\ pc = "idle"
    /\ updates = 0
    /\ seeds < MaxSeeds
    /\ LET sd == seed_cell(_particles, _space_hash, random, cell, velocity, density,
                           grid_offset, cell_size, order, realloc)
       IN  /\ _particles' = sd.p
           /\ _space_hash' = sd.h
           /\ random' = sd.r
    /\ ref_particles' = _particles'
    /\ ref_hash' = _space_hash'
    /\ seeds' = seeds + 1
    /\ seed_arg' = [cell |-> cell, velocity |-> velocity, density |-> density]
    /\ UNCHANGED <<pc, _grid, _old_grid, simulation_method, blending_factor, gravity,
                   cell_size, cfl_number, grid_offset, dt, ts, step_dt, last_step,
                   in_update, fluid_cells, update_arg, substeps, phases, updates,
                   ref_grid, cell_query>>

\* simulation::hash_particles, called by the host
HashParticles ==
    /\ pc = "idle"
    /\ updates = 0
    /\ _particles' = hash_particles(_particles, grid_offset, cell_size).p
    /\ _space_hash' = hash_particles(_particles, grid_offset, cell_size).h
    /\ ref_particles' = _particles'
    /\ ref_hash' = _space_hash'
    /\ UNCHANGED host_vars
    /\ UNCHANGED <<pc, _grid, _old_grid, simulation_method, blending_factor, gravity,
                   cell_size, cfl_number, grid_offset, dt, ts, step_dt, last_step,
                   in_update, fluid_cells, update_arg, substeps, phases, updates,
                   ref_grid>>

\* simulation::update is entered
Update(d) ==
    /\ pc = "idle"
    /\ updates < MaxUpdates
    /\ updates' = updates + 1
    /\ dt' = d
    /\ update_arg' = d
    /\ substeps' = <<>>
    /\ in_update' = TRUE
    /\ last_step' = FALSE
    /\ pc' = "loop"
    /\ UNCHANGED host_vars
    /\ UNCHANGED <<_particles, _grid, _old_grid, _space_hash, simulation_method,
                   blending_factor, gravity, cell_size, cfl_number, grid_offset, ts,
                   step_dt, fluid_cells, phases, ref_particles, ref_grid, ref_hash>>

SubstepSize_always_ts(k, c, d) == IF c.sqden = 0 THEN d ELSE TsTicks(k, c)

\* the size of the substep update() runs when the largest squared speed is
\* c.sqden and d remains: lines 22-27
SubstepSize(k, c, d) == IF TsGreater(k, c, d) THEN d ELSE TsTicks(k, c)

\* one turn of update()'s loop up to the call of time_step: lines 22-27
UpdateLoop ==
    /\ pc = "loop"
    /\ Len(substeps) < MaxSubsteps
    /\ LET c == cfl(_particles, cell_size)
       IN  /\ ts' = IF c.sqden = 0 THEN [inf |-> TRUE, ticks |-> 0]
                    ELSE [inf |-> FALSE, ticks |-> TsTicks(cfl_number, c)]
           /\ last_step' = TsGreater(cfl_number, c, dt)
           /\ step_dt' = SubstepSize(cfl_number, c, dt)
           /\ substeps' = Append(substeps, [size |-> step_dt', maxlen |-> c.sqden])
    /\ phases' = <<>>
    /\ pc' = "advect"
    /\ UNCHANGED host_vars
    /\ UNCHANGED <<_particles, _grid, _old_grid, _space_hash, simulation_method,
                   blending_factor, gravity, cell_size, cfl_number, grid_offset, dt,
                   in_update, fluid_cells, update_arg, updates, ref_particles,
                   ref_grid, ref_hash>>

\* the host calls simulation::time_step(d) itself
TimeStep(d) ==
    /\ pc = "idle"
    /\ updates < MaxUpdates
    /\ updates' = updates + 1
    /\ step_dt' = d
    /\ in_update' = FALSE
    /\ last_step' = FALSE
    /\ phases' = <<>>
    /\ pc' = "advect"
    /\ UNCHANGED host_vars
    /\ UNCHANGED <<_particles, _grid, _old_grid, _space_hash, simulation_method,
                   blending_factor, gravity, cell_size, cfl_number, grid_offset, dt, ts,
                   fluid_cells, update_arg, substeps, ref_particles, ref_grid, ref_hash>>

\* line 35
Advect ==
    /\ pc = "advect"
    /\ _particles' = _advect_particles(_particles, step_dt, grid_offset, cell_size)
    /\ phases' = Append(phases, pc)
    /\ pc' = NextPhase(pc)
    /\ UNCHANGED host_vars
    /\ UNCHANGED <<_grid, _old_grid, _space_hash, simulation_method, blending_factor,
                   gravity, cell_size, cfl_number, grid_offset, dt, ts, step_dt,
                   last_step, in_update, fluid_cells, update_arg, substeps, updates,
                   ref_particles, ref_grid, ref_hash>>

\* line 36
Hash ==
    /\ pc = "hash"
    /\ _particles' = hash_particles(_particles, grid_offset, cell_size).p
    /\ _space_hash' = hash_particles(_particles, grid_offset, cell_size).h
    /\ phases' = Append(phases, pc)
    /\ pc' = NextPhase(pc)
    /\ UNCHANGED host_vars
    /\ UNCHANGED <<_grid, _old_grid, simulation_method, blending_factor,
                   gravity, cell_size, cfl_number, grid_offset, dt, ts, step_dt,
                   last_step, in_update, fluid_cells, update_arg, substeps, updates,
                   ref_particles, ref_grid, ref_hash>>

\* line 37
ToGrid ==
    /\ pc = "to_grid"
    /\ LET r == _transfer_to_grid(simulation_method, _particles, _grid, _old_grid,
                                  _space_hash, grid_offset, cell_size)
       IN  /\ _particles' = r.p
           /\ _grid' = r.g
           /\ _old_grid' = r.og
    /\ phases' = Append(phases, pc)
    /\ pc' = NextPhase(pc)
    /\ UNCHANGED host_vars
    /\ UNCHANGED <<_space_hash, simulation_method, blending_factor,
                   gravity, cell_size, cfl_number, grid_offset, dt, ts, step_dt,
                   last_step, in_update, fluid_cells, update_arg, substeps, updates,
                   ref_particles, ref_grid, ref_hash>>

\* lines 38-45
Forces ==
    /\ pc = "forces"
    /\ _grid' = AddExternalForces(_grid, step_dt)
    /\ phases' = Append(phases, pc)
    /\ pc' = NextPhase(pc)
    /\ UNCHANGED host_vars
    /\ UNCHANGED <<_particles, _old_grid, _space_hash, simulation_method, blending_factor,
                   gravity, cell_size, cfl_number, grid_offset, dt, ts, step_dt,
                   last_step, in_update, fluid_cells, update_arg, substeps, updates,
                   ref_particles, ref_grid, ref_hash>>

\* lines 46-64
Pressure ==
    /\ pc = "pressure"
    /\ fluid_cells' = get_sorted_occupied_cells(_space_hash)
    /\ _grid' = apply_pressure(_grid, solve(_grid, fluid_cells', step_dt))
    /\ phases' = Append(phases, pc)
    /\ pc' = NextPhase(pc)
    /\ UNCHANGED host_vars
    /\ UNCHANGED <<_particles, _old_grid, _space_hash, simulation_method, blending_factor,
                   gravity, cell_size, cfl_number, grid_offset, dt, ts, step_dt,
                   last_step, in_update, update_arg, substeps, updates,
                   ref_particles, ref_grid, ref_hash>>

\* line 65; the reference run (kept for flip_blend with blending factor 0)
\* takes the same step with method pic
FromGrid ==
    /\ pc = "from_grid"
    /\ _particles' = _transfer_from_grid(simulation_method, _particles, _grid, _old_grid,
                                         blending_factor, grid_offset, cell_size)
    /\ IF simulation_method = "flip_blend" /\ blending_factor = 0
       THEN LET r == PicStep(ref_particles, ref_grid, step_dt, grid_offset, cell_size)
            IN  /\ ref_particles' = r.p
                /\ ref_grid' = r.g
                /\ ref_hash' = r.h
       ELSE UNCHANGED <<ref_particles, ref_grid, ref_hash>>
    /\ phases' = Append(phases, pc)
    /\ pc' = NextPhase(pc)
    /\ UNCHANGED host_vars
    /\ UNCHANGED <<_grid, _old_grid, _space_hash, simulation_method, blending_factor,
                   gravity, cell_size, cfl_number, grid_offset, dt, ts, step_dt,
                   last_step, in_update, fluid_cells, update_arg, substeps, updates>>

AfterStep_no_decrement ==
    /\ pc = "stepped"
    /\ dt' = dt
    /\ pc' = IF in_update /\ ~last_step THEN "loop" ELSE "idle"
    /\ UNCHANGED host_vars
    /\ UNCHANGED <<_particles, _grid, _old_grid, _space_hash, simulation_method,
                   blending_factor, gravity, cell_size, cfl_number, grid_offset, ts,
                   step_dt, last_step, in_update, fluid_cells, update_arg, substeps,
                   phases, updates, ref_particles, ref_grid, ref_hash>>

\* time_step has returned: back to the host, or lines 25 and 28 of update()
AfterStep ==
    /\ pc = "stepped"
    /\ IF in_update /\ ~last_step
       THEN /\ dt' = dt - ts.ticks
            /\ pc' = "loop"
       ELSE /\ dt' = dt
            /\ pc' = "idle"
    /\ UNCHANGED host_vars
    /\ UNCHANGED <<_particles, _grid, _old_grid, _space_hash, simulation_method,
                   blending_factor, gravity, cell_size, cfl_number, grid_offset, ts,
                   step_dt, last_step, in_update, fluid_cells, update_arg, substeps,
                   phases, updates, ref_particles, ref_grid, ref_hash>>

Next ==
    \/ \E m \in Methods, sc \in Scenes, ps \in ParticleSeqs :
          Configure(m, sc.gravity, sc.off, ps)
    \/ \E b \in BlendingFactors : SetBlendingFactor(b)
    \/ \E c \in SolidCells : MarkSolid(c)
    \/ \E d \in Dts : Update(d)
    \/ UpdateLoop
    \/ \E d \in StepDts : TimeStep(d)
    \/ Advect
    \/ Hash
    \/ ToGrid
    \/ Forces
    \/ Pressure
    \/ FromGrid
    \/ AfterStep

Spec == Init /\ [][Next]_vars

\* a time step is under way
InStep == pc \in {"advect", "hash", "to_grid", "forces", "pressure", "from_grid"}

\* update() and time_step() run on the calling thread: a call that has begun
\* takes its next step, lines 20-29 and 34-57. Every such step moves pc, and
\* only such steps move it while a call is under way, so the condition is
\* stated on pc.
Positions == {"loop", "advect", "hash", "to_grid", "forces", "pressure", "from_grid",
              "stepped", "idle"}
Running ==
    /\ \/ InStep
       \/ pc = "stepped"
       \/ pc = "loop" /\ Len(substeps) < MaxSubsteps
    /\ pc' \in Positions

FairSpec == Spec /\ WF_pc(Running)

\* ------------------------------------------------------------- seeding
\* a host that seeds cells, rebuilds the hash and takes time steps itself
SeedNext ==
    \/ \E m \in Methods, sc \in Scenes, ps \in ParticleSeqs :
          Configure(m, sc.gravity, sc.off, ps)
    \/ \E c \in SeedCells, d \in SeedDensities, o \in ArgOrders, r \in BOOLEAN :
          SeedCell(c, SeedVelocity, d, o, r)
    \/ HashParticles
    \/ \E d \in StepDts : TimeStep(d)
    \/ Advect
    \/ Hash
    \/ ToGrid
    \/ Forces
    \/ Pressure
    \/ FromGrid
    \/ AfterStep

SeedSpec == Init /\ [][SeedNext]_vars

\* ------------------------------------------- world_position_to_cell_index
\* the world positions a caller asks about: below, inside, on the upper
\* boundary of the grid and above it
QueryCoords == {-2, 3, 2 * HostCellSize, 2 * HostCellSize + 1}
QueryPositions == QueryCoords \X QueryCoords \X QueryCoords

\* a caller asks for the cell of a world position
Query(pos) ==
    /\ pc = "idle"
    /\ cell_query' = [pos |-> pos,
                      index |-> world_position_to_cell_index(pos, grid_offset, cell_size)]
    /\ UNCHANGED <<pc, _particles, _grid, _old_grid, _space_hash, simulation_method,
                   blending_factor, gravity, cell_size, cfl_number, grid_offset, dt, ts,
                   step_dt, last_step, in_update, fluid_cells, update_arg, substeps,
                   phases, updates, ref_particles, ref_grid, ref_hash, random, seeds,
                   seed_arg>>

QueryNext ==
    \/ \E m \in Methods, sc \in Scenes, ps \in ParticleSeqs :
          Configure(m, sc.gravity, sc.off, ps)
    \/ \E pos \in QueryPositions : Query(pos)

\* a configured simulation whose cell indices are asked for
QuerySpec == Init /\ [][QueryNext]_vars

\* ================================================================ claims
UpdateReturned == pc = "idle" /\ in_update /\ updates > 0

\* C1: when update(dt) returns, the sizes of the substeps it ran sum to dt, and
\* each substep's size is at most CFL_number * cell_size / v_max for the largest
\* particle speed v_max at the start of that substep (size^2 * v_max^2 <=
\* (CFL_number * cell_size)^2).
C1_SubstepsSumToDt ==
    UpdateReturned =>
        /\ SumSeq([k \in 1..Len(substeps) |-> substeps[k].size]) = update_arg
        /\ \A k \in 1..Len(substeps) :
              substeps[k].size * substeps[k].size * substeps[k].maxlen
                 <= (cfl_number * cell_size) * (cfl_number * cell_size)

\* an update that returned after a CFL-limited substep and a final one
C1_Witness ==
    /\ UpdateReturned
    /\ Len(substeps) >= 2
    /\ substeps[1].maxlen > 0
    /\ substeps[1].size < update_arg
    /\ substeps[2].size > 0

\* ts >= d for ts = k * c.num / sqrt(c.sqden), decided exactly
TsAtLeast(k, c, d) ==
    /\ k * c.num > 0
    /\ c.sqden = 0 \/ (k * c.num) * (k * c.num) >= d * d * c.sqden

\* C2: in update(dt), whenever ts >= the remaining time (equality included), the
\* substep that is run has the size of the remaining time and is the last one.
C2_LastSubstepWhenTsCoversRemaining ==
    (pc = "advect" /\ in_update
        /\ TsAtLeast(cfl_number, [num |-> cell_size, sqden |-> substeps[Len(substeps)].maxlen], dt))
    => (step_dt = dt /\ last_step)

\* C3: every time_step(dt), for every transfer method, runs advect, hash,
\* transfer to grid, external forces, pressure, transfer from grid, each once
\* and in this order; a phase starts only when the previous ones have finished.
C3_PhasesInOrder ==
    /\ pc = "advect" => phases = <<>>
    /\ pc = "hash" => phases = <<"advect">>
    /\ pc = "to_grid" => phases = <<"advect", "hash">>
    /\ pc = "forces" => phases = <<"advect", "hash", "to_grid">>
    /\ pc = "pressure" => phases = <<"advect", "hash", "to_grid", "forces">>
    /\ pc = "from_grid" => phases = <<"advect", "hash", "to_grid", "forces", "pressure">>
    /\ pc = "stepped" =>
          phases = <<"advect", "hash", "to_grid", "forces", "pressure", "from_grid">>

\* a flip_blend substep that has run all its phases on some particles
C3_Witness ==
    /\ pc = "stepped"
    /\ simulation_method = "flip_blend"
    /\ Len(phases) = 6
    /\ Len(_particles) > 0

\* C4: the external-forces phase of a substep of size dt adds gravity * dt to
\* every face velocity, gravity being the configured simulation::gravity.
C4_ForcesAddConfiguredGravity ==
    [][pc = "forces" =>
          \A c \in Cells :
              _grid'[c].velocities_posface =
                  VAdd(_grid[c].velocities_posface, VScale(gravity, step_dt))]_vars

\* C5: no phase of a substep writes to a solid cell: its type and its face
\* velocities are the same after the phase as before.
C5_SolidCellsUntouched ==
    [][InStep => \A c \in Cells : _grid[c].cell_type = "solid" => _grid'[c] = _grid[c]]_vars

\* the number of times reference i occurs in bucket b
Occurrences(b, i) == Cardinality({k \in 1..Len(b) : b[k] = i})
JustHashed == pc = "to_grid" \/ (pc = "idle" /\ updates = 0)

\* C6: immediately after hash_particles, every particle's grid_index is
\* clamp(floor((position - grid_offset) / cell_size), 0, size - 1) on each axis,
\* the particle is once in the bucket of that cell and in no other bucket, and
\* the buckets hold as many entries as there are particles.
C6_HashMatchesParticles ==
    JustHashed =>
        /\ \A i \in 1..Len(_particles) :
              /\ \A a \in Axes :
                    _particles[i].grid_index[a] =
                        Max(0, Min((_particles[i].position[a] - grid_offset[a]) \div cell_size,
                                   Size[a] - 1))
              /\ \A c \in Cells :
                    Occurrences(_space_hash[c], i) =
                        IF c = _particles[i].grid_index THEN 1 ELSE 0
        /\ SumSeq([k \in 1..Len(SetToSeq(Cells)) |-> Len(_space_hash[SetToSeq(Cells)[k]])])
              = Len(_particles)

\* hashed: two particles, one of them outside the grid on both sides
C6_Witness ==
    /\ JustHashed
    /\ Len(_particles) = 2
    /\ \E i \in 1..Len(_particles) :
          /\ _particles[i].position[2] < grid_offset[2]
          /\ _particles[i].position[1] - grid_offset[1] >= Size[1] * cell_size

\* C7: after the advection phase every particle's position lies component-wise
\* in [grid_offset + boundary_skin_width, grid_offset + size * cell_size -
\* boundary_skin_width], and advection leaves every velocity as it was.
C7_AdvectClampsIntoGrid ==
    [][pc = "advect" =>
          /\ Len(_particles') = Len(_particles)
          /\ \A i \in 1..Len(_particles) :
                /\ \A a \in Axes :
                      /\ _particles'[i].position[a] >= grid_offset[a] + boundary_skin_width
                      /\ _particles'[i].position[a]
                            <= grid_offset[a] + Size[a] * cell_size - boundary_skin_width
                /\ _particles'[i].velocity = _particles[i].velocity]_vars

\* advected: a particle that moves outwards sits on the upper skin of the grid
C7_Witness ==
    /\ pc = "hash"
    /\ step_dt > 0
    /\ \E i \in 1..Len(_particles) : \E a \in Axes :
          /\ _particles[i].velocity[a] > 0
          /\ _particles[i].position[a] = grid_offset[a] + Size[a] * cell_size - boundary_skin_width

\* C8: with method flip_blend the transfer-to-grid phase does the pic
\* particle-to-grid transfer, then the pic grid-to-particle transfer, then
\* copies the grid into old_grid with the outermost faces zeroed.
C8_FlipTransfersParticlesToGrid ==
    [][(pc = "to_grid" /\ simulation_method = "flip_blend") =>
          LET g1 == _transfer_to_grid_pic(_grid, _space_hash, _particles, grid_offset, cell_size)
          IN  /\ _grid' = g1
              /\ _particles' = _transfer_from_grid_pic(_particles, g1, grid_offset, cell_size)
              /\ _old_grid' = _remove_boundary_velocities(g1)]_vars

\* C9: with method flip_blend and blending factor 0, after every substep the
\* particles have the positions and velocities of the run with method pic from
\* the same start.
C9_FlipBlendZeroIsPic ==
    (simulation_method = "flip_blend" /\ blending_factor = 0 /\ ~InStep) =>
        /\ Len(_particles) = Len(ref_particles)
        /\ \A i \in 1..Len(_particles) :
              /\ _particles[i].position = ref_particles[i].position
              /\ _particles[i].velocity = ref_particles[i].velocity

\* C10: the cells handed to the pressure solver are exactly the cells of type
\* fluid after the transfer to grid; a non-solid cell is fluid iff its bucket
\* is not empty, and no solid or air cell is handed over.
C10_SolverGetsFluidCells ==
    pc = "from_grid" =>
        /\ fluid_cells = {c \in Cells : _grid[c].cell_type = "fluid"}
        /\ \A c \in Cells :
              _grid[c].cell_type # "solid" =>
                  (_grid[c].cell_type = "fluid" <=> _space_hash[c] # <<>>)

\* C15: world_position_to_cell_index(pos) returns the index of an existing
\* cell for every world position: each component is in 0..size-1, the index
\* hash_particles would assign to a particle at pos.
C15_IndexIsExistingCell ==
    pc = "idle" =>
        /\ InGrid(cell_query.index)
        /\ cell_query.index = HashIndex(cell_query.pos, grid_offset, cell_size)

\* C12: seed_cell(cell, velocity, density) adds max(0, density^3 - n)
\* particles, n being the entries of the cell's bucket before the call; each
\* has grid_index = cell, the given velocity and a position in the cell's box,
\* and is appended to the particle array and to the cell's bucket; the
\* particles that were there are unchanged.
C12_SeedCellAddsToStoreAndBucket ==
    [][seeds' = seeds + 1 =>
        LET cell == seed_arg'.cell
            old == Len(_particles)
            n == Len(_space_hash[cell])
            k == Max(0, seed_arg'.density * seed_arg'.density * seed_arg'.density - n)
            lo == VAdd(grid_offset, VScale(cell, cell_size))
        IN  /\ Len(_particles') = old + k
            /\ SubSeq(_particles', 1, old) = _particles
            /\ \A i \in (old + 1)..(old + k) :
                  /\ _particles'[i].grid_index = cell
                  /\ _particles'[i].velocity = seed_arg'.velocity
                  /\ \A a \in Axes :
                        /\ lo[a] <= _particles'[i].position[a]
                        /\ _particles'[i].position[a] < lo[a] + cell_size
            /\ _space_hash'[cell] = _space_hash[cell] \o [j \in 1..k |-> old + j]
            /\ \A c \in Cells \ {cell} : _space_hash'[c] = _space_hash[c]]_vars

\* C13: whenever a call of seed_cell, hash_particles or time_step has
\* returned, every entry of every bucket refers to an element the particle
\* array holds.
C13_BucketsReferToStoredParticles ==
    pc = "idle" =>
        \A c \in Cells : \A i \in 1..Len(_space_hash[c]) :
            _space_hash[c][i] \in 1..Len(_particles)

\* the configurations the specification calls invalid
InvalidConfig ==
    \/ cfl_number <= 0
    \/ cell_size <= 0
    \/ \E a \in Axes : Size[a] = 0
    \/ blending_factor < 0
    \/ blending_factor > 1

\* C11: a configuration with CFL_number <= 0, cell_size <= 0, a zero grid
\* dimension or a blending factor outside [0, 1] is rejected, and update(dt)
\* under it runs no substep: no phase of a time step is entered and no substep
\* is recorded.
C11_InvalidConfigRunsNoSubstep ==
    (InvalidConfig /\ in_update) => (~InStep /\ pc # "stepped" /\ substeps = <<>>)

\* C14: with dt > 0, CFL_number > 0, cell_size > 0 and finite velocities,
\* every turn of update()'s loop that is not the last one leaves strictly less
\* time remaining, and update(dt) returns.
C14_UpdateTerminates ==
    /\ [][(pc = "stepped" /\ in_update /\ ~last_step) => dt' < dt]_vars
    /\ (pc = "loop") ~> (pc = "idle" /\ in_update)

\* update() is back at the head of its loop after a turn that was not the
\* last: time has been taken off and some remains
C14_Witness ==
    /\ pc = "loop"
    /\ in_update
    /\ Len(substeps) >= 1
    /\ 0 < dt
    /\ dt < update_arg

====
